---- MODULE Spec2Model ----
(***************************************************************************)
(* Model of Servo_Basic.ino: an Arduino sketch driving one servo (servoA)  *)
(* in one of three build-time selected modes: basicOperations,              *)
(* userInputOperations (the mode built by default) and sweepOperations.     *)
(*                                                                          *)
(* Everything the sketch does to the outside world (servoA.write, delay,    *)
(* Serial.println of a complete line) is recorded, in order, in `log`,      *)
(* which is cleared whenever loop() or sweepOperations() calls one of the   *)
(* procedures, so that `log` is always the trace of the procedure           *)
(* invocation in progress (or of the one that has just returned).           *)
(***************************************************************************)
EXTENDS Integers, Sequences, FiniteSets

VARIABLES
    mode,        \* which call in loop() is uncommented (lines 85-87)
    pc,          \* position of the single thread of control
    servo,       \* the Servo instance servoA (line 63), set by attach
    rx,          \* bytes waiting in the Serial receive buffer
    received,    \* number of bytes that have arrived so far
    isNegative,  \* Stream::parseInt local
    value,       \* Stream::parseInt local (a long)
    angle,       \* `int angle` of userInputOperations / of servoSweep's for loops
    startAngle,  \* servoSweep parameter (uint8_t)
    stopAngle,   \* servoSweep parameter (uint8_t)
    stepAngle,   \* servoSweep parameter (uint8_t)
    stepTime,    \* servoSweep parameter (unsigned long)
    opIdx,       \* which statement pair of basicOperations / sweepOperations runs
    log,         \* effects of the procedure invocation in progress
    stalled      \* history: an invocation returned on an error and no byte arrived since

vars == <<mode, pc, servo, rx, received, isNegative, value, angle,
          startAngle, stopAngle, stepAngle, stepTime, opIdx, log, stalled>>

----------------------------------------------------------------------------
(* Program constants *)

DEBUG == 1
SERVO_A_0_DEGREES_PULSE_WIDTH == 1000
SERVO_A_180_DEGREES_PULSE_WIDTH == 2000
ServoA == 9
DemoDelay == 5000
DefaultStepAngle == 1
DefaultStepTime == 15
MaxAngle == 180

(* Bounds of the model *)

MaxInput == 4   \* bytes that arrive on the serial line during one run

\* Bytes the serial line delivers: digits, a minus sign and a separator.
RxAlphabet == {"0", "1", "8", "9", "-", " "}

\* uint8_t arguments servoSweep is called with (the type holds 0..255).
SweepAngles == {0, 1, 45, 90, 135, 179, 180, 181, 255}
SweepSteps == {0, 1, 2, 15, 45, 46, 89, 90, 91, 180, 181, 255}
SweepTimes == {DefaultStepTime, 1000}

Modes == {"basic", "input", "sweepOps", "sweepAny"}

----------------------------------------------------------------------------
(* Effects *)

Write(a) == [k |-> "write", what |-> "servoA", v |-> <<a>>]
Delay(ms) == [k |-> "delay", what |-> "ms", v |-> <<ms>>]
Println(text, vals) == [k |-> "println", what |-> text, v |-> vals]

SettingMsg(a) == Println("Setting angle to # degrees.", <<a>>)
AngleErrorMsg(a) == Println("ERROR: The angle value of # is out of range.", <<a>>)
StartErrorMsg(a) == Println("ERROR: The startAngle value of # is out of range.", <<a>>)
StopErrorMsg(a) == Println("ERROR: The stopAngle value of # is out of range.", <<a>>)
StepErrorMsg(a) == Println("ERROR: The stepAngle value of # is out of range.", <<a>>)
SweepMsg(a, b, s, t) ==
    Println("Sweeping angle from # to # degrees in increments of # degree(s) with a # ms step time.",
            <<a, b, s, t>>)

DebugLine(msg) == IF DEBUG # 0 THEN <<msg>> ELSE <<>>

----------------------------------------------------------------------------
(* Arithmetic of the target (AVR: int is 16 bits, two's complement) *)

ToInt(x) == ((x + 32768) % 65536) - 32768

Abs(x) == IF x > 0 THEN x ELSE -x

IsDigit(c) == c \in {"0", "1", "2", "3", "4", "5", "6", "7", "8", "9"}

DigitValue(c) ==
    CASE c = "0" -> 0 [] c = "1" -> 1 [] c = "2" -> 2 [] c = "3" -> 3
      [] c = "4" -> 4 [] c = "5" -> 5 [] c = "6" -> 6 [] c = "7" -> 7
      [] c = "8" -> 8 [] c = "9" -> 9

----------------------------------------------------------------------------
(* setup() *)

Init ==
    /\ mode \in Modes
    /\ pc = "setup"
    /\ servo = [attached |-> FALSE, pin |-> 0, min |-> 0, max |-> 0]
    /\ rx = <<>>
    /\ received = 0
    /\ isNegative = FALSE
    /\ value = 0
    /\ angle = 0
    /\ startAngle = 0
    /\ stopAngle = 0
    /\ stepAngle = 0
    /\ stepTime = 0
    /\ opIdx = 0
    /\ log = <<>>
    /\ stalled = FALSE

setup ==
    /\ pc = "setup"
    /\ servo' = [attached |-> TRUE, pin |-> ServoA,
                 min |-> SERVO_A_0_DEGREES_PULSE_WIDTH,
                 max |-> SERVO_A_180_DEGREES_PULSE_WIDTH]
    /\ pc' = "loop"
    /\ UNCHANGED <<mode, rx, received, isNegative, value, angle, startAngle,
                   stopAngle, stepAngle, stepTime, opIdx, log, stalled>>

----------------------------------------------------------------------------
(* The serial line: a byte arrives and is queued in the receive buffer.    *)
(* Only the user-input build ever reads the buffer.                        *)

Receive ==
    /\ mode = "input"
    /\ pc # "setup"
    /\ received < MaxInput
    /\ \E c \in RxAlphabet : rx' = Append(rx, c)
    /\ received' = received + 1
    /\ stalled' = FALSE
    /\ UNCHANGED <<mode, pc, servo, isNegative, value, angle, startAngle,
                   stopAngle, stepAngle, stepTime, opIdx, log>>

----------------------------------------------------------------------------
(* basicOperations() *)

BasicAngles == <<90, 0, 90, 180>>

loopBasic ==
    /\ pc = "loop"
    /\ mode = "basic"
    /\ pc' = "basic"
    /\ opIdx' = 1
    /\ log' = <<>>
    /\ UNCHANGED <<mode, servo, rx, received, isNegative, value, angle,
                   startAngle, stopAngle, stepAngle, stepTime, stalled>>

basicOperations ==
    /\ pc = "basic"
    /\ log' = log \o <<Write(BasicAngles[opIdx]), Delay(DemoDelay)>>
    /\ IF opIdx = Len(BasicAngles)
          THEN pc' = "loop" /\ opIdx' = 0
          ELSE pc' = pc /\ opIdx' = opIdx + 1
    /\ UNCHANGED <<mode, servo, rx, received, isNegative, value, angle,
                   startAngle, stopAngle, stepAngle, stepTime, stalled>>

----------------------------------------------------------------------------
(* userInputOperations() *)

\* Variant: the lower limit is not checked.
AngleOutOfRangeNoLower(a) == a > MaxAngle

\* Variant: the upper limit is exclusive.
AngleOutOfRangeExclusive(a) == a < 0 \/ a >= MaxAngle

\* if (angle < 0 || angle > 180)
AngleOutOfRange(a) == a < 0 \/ a > MaxAngle

\* Variant: `continue` in place of `return`.
AfterAngleErrorContinue == "avail"

\* where control goes after the error message: `return` leaves the procedure
AfterAngleError == "loop"

loopUserInput ==
    /\ pc = "loop"
    /\ mode = "input"
    /\ pc' = "avail"
    /\ log' = <<>>
    /\ UNCHANGED <<mode, servo, rx, received, isNegative, value, angle,
                   startAngle, stopAngle, stepAngle, stepTime, opIdx, stalled>>

\* while (Serial.available())
SerialAvailable ==
    /\ pc = "avail"
    /\ IF Len(rx) > 0
          THEN pc' = "skip" /\ isNegative' = FALSE /\ value' = 0
          ELSE pc' = "loop" /\ UNCHANGED <<isNegative, value>>
    /\ UNCHANGED <<mode, servo, rx, received, angle, startAngle, stopAngle,
                   stepAngle, stepTime, opIdx, log, stalled>>

\* parseInt: peekNextDigit(SKIP_ALL) drops bytes until a digit or '-' is at
\* the head, then the first pass of the do-loop takes that byte.
ParseSkip ==
    /\ pc = "skip"
    /\ Len(rx) > 0
    /\ LET c == Head(rx) IN
         /\ rx' = Tail(rx)
         /\ IF c = "-"
               THEN pc' = "next" /\ isNegative' = TRUE /\ value' = value
               ELSE IF IsDigit(c)
                       THEN /\ pc' = "next"
                            /\ value' = value * 10 + DigitValue(c)
                            /\ isNegative' = isNegative
                       ELSE pc' = pc /\ UNCHANGED <<isNegative, value>>
    /\ UNCHANGED <<mode, servo, received, angle, startAngle, stopAngle,
                   stepAngle, stepTime, opIdx, log, stalled>>

\* parseInt: while the head is a digit, take it; any other byte ends the
\* number and stays in the buffer.
ParseNext ==
    /\ pc = "next"
    /\ Len(rx) > 0
    /\ LET c == Head(rx) IN
         IF IsDigit(c)
            THEN /\ rx' = Tail(rx)
                 /\ value' = value * 10 + DigitValue(c)
                 /\ pc' = pc
                 /\ angle' = angle
            ELSE /\ angle' = ToInt(IF isNegative THEN -value ELSE value)
                 /\ pc' = "check"
                 /\ UNCHANGED <<rx, value>>
    /\ UNCHANGED <<mode, servo, received, isNegative, startAngle, stopAngle,
                   stepAngle, stepTime, opIdx, log, stalled>>

\* parseInt: timedPeek gives up after the stream timeout with nothing to read.
ParseTimeout ==
    /\ pc \in {"skip", "next"}
    /\ Len(rx) = 0
    /\ angle' = IF pc = "skip" THEN 0
                ELSE ToInt(IF isNegative THEN -value ELSE value)
    /\ pc' = "check"
    /\ UNCHANGED <<mode, servo, rx, received, isNegative, value, startAngle,
                   stopAngle, stepAngle, stepTime, opIdx, log, stalled>>

\* Variant: the rest of the pending input is discarded with the bad value.
userInputOperationsFlush ==
    /\ pc = "check"
    /\ IF AngleOutOfRange(angle)
          THEN /\ log' = Append(log, AngleErrorMsg(angle))
               /\ pc' = AfterAngleError
               /\ stalled' = TRUE
               /\ rx' = <<>>
          ELSE /\ log' = log \o DebugLine(SettingMsg(angle)) \o <<Write(angle)>>
               /\ pc' = "avail"
               /\ stalled' = stalled
               /\ rx' = rx
    /\ UNCHANGED <<mode, servo, received, isNegative, value, angle,
                   startAngle, stopAngle, stepAngle, stepTime, opIdx>>

\* the body of the while loop after parseInt
userInputOperations ==
    /\ pc = "check"
    /\ IF AngleOutOfRange(angle)
          THEN /\ log' = Append(log, AngleErrorMsg(angle))
               /\ pc' = AfterAngleError
               /\ stalled' = TRUE
          ELSE /\ log' = log \o DebugLine(SettingMsg(angle)) \o <<Write(angle)>>
               /\ pc' = "avail"
               /\ stalled' = stalled
    /\ UNCHANGED <<mode, servo, rx, received, isNegative, value, angle,
                   startAngle, stopAngle, stepAngle, stepTime, opIdx>>

----------------------------------------------------------------------------
(* servoSweep() *)

\* Variant: a step of 0 is let through.
SweepCheckNoZero(start, stop, step) ==
    IF start > MaxAngle THEN "startAngle"
    ELSE IF stop > MaxAngle THEN "stopAngle"
    ELSE IF step > Abs(stop - start) THEN "stepAngle"
    ELSE "ok"

\* Variant: stopAngle is checked before startAngle.
SweepCheckStopFirst(start, stop, step) ==
    IF stop > MaxAngle THEN "stopAngle"
    ELSE IF start > MaxAngle THEN "startAngle"
    ELSE IF step < 1 \/ step > Abs(stop - start) THEN "stepAngle"
    ELSE "ok"

\* Variant: stopAngle is not checked.
SweepCheckNoStop(start, stop, step) ==
    IF start > MaxAngle THEN "startAngle"
    ELSE IF step < 1 \/ step > Abs(stop - start) THEN "stepAngle"
    ELSE "ok"

\* the three checks, in the order of the code; "ok" when all pass
SweepCheck(start, stop, step) ==
    IF start > MaxAngle THEN "startAngle"
    ELSE IF stop > MaxAngle THEN "stopAngle"
    ELSE IF step < 1 \/ step > Abs(stop - start) THEN "stepAngle"
    ELSE "ok"

\* Variant: the loop bound excludes stopAngle.
UpContinuesExclusive(a, stop) == a < stop

\* for (...; angle <= stopAngle; ...)
UpContinues(a, stop) == a <= stop

\* for (...; angle >= stopAngle; ...)
DownContinues(a, stop) == a >= stop

\* angle += stepAngle
NextUp(a, step) == ToInt(a + step)

\* Variant: the loop counter has the parameters' type, uint8_t.
NextDownU8(a, step) == (a - step) % 256

\* angle -= stepAngle
NextDown(a, step) == ToInt(a - step)

\* Variant: the `return` after a failed check is missing.
AfterSweepErrorFallThrough == IF startAngle < stopAngle THEN "up" ELSE "down"

\* where control goes after an error message: `return` leaves servoSweep
AfterSweepError == "ret"

servoSweepEnter ==
    /\ pc = "enter"
    /\ LET r == SweepCheck(startAngle, stopAngle, stepAngle) IN
         IF r = "startAngle"
            THEN log' = Append(log, StartErrorMsg(startAngle)) /\ pc' = AfterSweepError
                 /\ angle' = angle
         ELSE IF r = "stopAngle"
            THEN log' = Append(log, StopErrorMsg(stopAngle)) /\ pc' = AfterSweepError
                 /\ angle' = angle
         ELSE IF r = "stepAngle"
            THEN log' = Append(log, StepErrorMsg(stepAngle)) /\ pc' = AfterSweepError
                 /\ angle' = angle
         ELSE /\ log' = log \o DebugLine(SweepMsg(startAngle, stopAngle,
                                                   stepAngle, stepTime))
              /\ angle' = startAngle
              /\ pc' = IF startAngle < stopAngle THEN "up" ELSE "down"
    /\ UNCHANGED <<mode, servo, rx, received, isNegative, value, startAngle,
                   stopAngle, stepAngle, stepTime, opIdx, stalled>>

servoSweepUp ==
    /\ pc = "up"
    /\ IF UpContinues(angle, stopAngle)
          THEN /\ log' = log \o DebugLine(SettingMsg(angle))
                            \o <<Write(angle), Delay(stepTime)>>
               /\ angle' = NextUp(angle, stepAngle)
               /\ pc' = pc
          ELSE pc' = "ret" /\ UNCHANGED <<log, angle>>
    /\ UNCHANGED <<mode, servo, rx, received, isNegative, value, startAngle,
                   stopAngle, stepAngle, stepTime, opIdx, stalled>>

servoSweepDown ==
    /\ pc = "down"
    /\ IF DownContinues(angle, stopAngle)
          THEN /\ log' = log \o DebugLine(SettingMsg(angle))
                            \o <<Write(angle), Delay(stepTime)>>
               /\ angle' = NextDown(angle, stepAngle)
               /\ pc' = pc
          ELSE pc' = "ret" /\ UNCHANGED <<log, angle>>
    /\ UNCHANGED <<mode, servo, rx, received, isNegative, value, startAngle,
                   stopAngle, stepAngle, stepTime, opIdx, stalled>>

----------------------------------------------------------------------------
(* sweepOperations() *)

SweepOpsArgs ==
    << <<0, 180, DefaultStepAngle, DefaultStepTime>>,
       <<180, 0, DefaultStepAngle, DefaultStepTime>>,
       <<45, 135, 15, 1000>>,
       <<180, 0, 45, 1000>> >>

loopSweep ==
    /\ pc = "loop"
    /\ mode = "sweepOps"
    /\ pc' = "call"
    /\ opIdx' = 1
    /\ UNCHANGED <<mode, servo, rx, received, isNegative, value, angle,
                   startAngle, stopAngle, stepAngle, stepTime, log, stalled>>

sweepOperationsCall ==
    /\ pc = "call"
    /\ startAngle' = SweepOpsArgs[opIdx][1]
    /\ stopAngle' = SweepOpsArgs[opIdx][2]
    /\ stepAngle' = SweepOpsArgs[opIdx][3]
    /\ stepTime' = SweepOpsArgs[opIdx][4]
    /\ log' = <<>>
    /\ pc' = "enter"
    /\ UNCHANGED <<mode, servo, rx, received, isNegative, value, angle,
                   opIdx, stalled>>

sweepOperationsDelay ==
    /\ pc = "ret"
    /\ mode = "sweepOps"
    /\ log' = Append(log, Delay(DemoDelay))
    /\ IF opIdx = Len(SweepOpsArgs)
          THEN pc' = "loop" /\ opIdx' = 0
          ELSE pc' = "call" /\ opIdx' = opIdx + 1
    /\ UNCHANGED <<mode, servo, rx, received, isNegative, value, angle,
                   startAngle, stopAngle, stepAngle, stepTime, stalled>>

----------------------------------------------------------------------------
(* servoSweep called with arbitrary arguments of its parameter types *)

callServoSweep ==
    /\ pc = "loop"
    /\ mode = "sweepAny"
    /\ startAngle' \in SweepAngles
    /\ stopAngle' \in SweepAngles
    /\ stepAngle' \in SweepSteps
    /\ stepTime' \in SweepTimes
    /\ log' = <<>>
    /\ pc' = "enter"
    /\ UNCHANGED <<mode, servo, rx, received, isNegative, value, angle,
                   opIdx, stalled>>

\* the call returns; the caller's frame (arguments, loop counter) is gone
returnServoSweep ==
    /\ pc = "ret"
    /\ mode = "sweepAny"
    /\ pc' = "loop"
    /\ startAngle' = 0
    /\ stopAngle' = 0
    /\ stepAngle' = 0
    /\ stepTime' = 0
    /\ angle' = 0
    /\ log' = <<>>
    /\ UNCHANGED <<mode, servo, rx, received, isNegative, value, opIdx,
                   stalled>>

----------------------------------------------------------------------------

Program ==
    \/ setup
    \/ loopBasic
    \/ basicOperations
    \/ loopUserInput
    \/ SerialAvailable
    \/ ParseSkip
    \/ ParseNext
    \/ ParseTimeout
    \/ userInputOperations
    \/ loopSweep
    \/ sweepOperationsCall
    \/ sweepOperationsDelay
    \/ callServoSweep
    \/ returnServoSweep
    \/ servoSweepEnter
    \/ servoSweepUp
    \/ servoSweepDown

Next == Program \/ Receive

Spec == Init /\ [][Next]_vars

\* The processor never stops executing the sketch.
FairSpec == Spec /\ WF_vars(Program)

----------------------------------------------------------------------------
(* Vocabulary of the properties *)

IsWrite(e) == e.k = "write"
IsDelay(e) == e.k = "delay"
IsError(e) ==
    /\ e.k = "println"
    /\ e.what \in {"ERROR: The angle value of # is out of range.",
                   "ERROR: The startAngle value of # is out of range.",
                   "ERROR: The stopAngle value of # is out of range.",
                   "ERROR: The stepAngle value of # is out of range."}
WritesOf(l) == SelectSeq(l, IsWrite)
WrittenAngles(l) == [i \in 1..Len(WritesOf(l)) |-> WritesOf(l)[i].v[1]]
HasError(l) == \E i \in 1..Len(l) : IsError(l[i])
HasWrite(l) == \E i \in 1..Len(l) : IsWrite(l[i])
InSweep == pc \in {"up", "down", "ret"}
SweepArgsValid ==
    /\ startAngle <= 180
    /\ stopAngle <= 180
    /\ 1 <= stepAngle
    /\ stepAngle <= Abs(stopAngle - startAngle)

----------------------------------------------------------------------------
\* C1: in userInputOperations, a parsed value A with A < 0 or A > 180 adds
\* exactly one effect to the invocation's trace, the line "ERROR: The angle
\* value of <A> is out of range."; no servo write and no "Setting angle to"
\* line is produced for it.
C1_OutOfRangeAngleOnlyReportsError ==
    [][(pc = "check" /\ (angle < 0 \/ angle > 180) /\ pc' # "check")
         => log' = Append(log, AngleErrorMsg(angle))]_vars

C1_Witness ==
    /\ mode = "input"
    /\ pc = "loop"
    /\ angle < 0
    /\ log = <<AngleErrorMsg(angle)>>

\* C2: in userInputOperations, a parsed value A with 0 <= A <= 180 (bounds
\* included) adds to the trace the line "Setting angle to <A> degrees."
\* (DEBUG is set) followed by one write of exactly A, and no error message.
C2_InRangeAngleIsWrittenOnce ==
    [][(pc = "check" /\ 0 <= angle /\ angle <= 180 /\ pc' # "check")
         => log' = log \o <<SettingMsg(angle), Write(angle)>>]_vars

C2_Witness ==
    /\ mode = "input"
    /\ pc = "avail"
    /\ angle = 180
    /\ Len(log) = 2
    /\ log[2] = Write(180)

\* C3: within one invocation of userInputOperations an out-of-range value
\* ends the invocation at once: the error message is the last effect of the
\* invocation, control is back in loop(), nothing further is parsed, and
\* the bytes queued behind the bad value stay in the receive buffer.
C3_ErrorIsLast ==
    mode = "input" =>
        \A i \in 1..Len(log) : IsError(log[i]) => (i = Len(log) /\ pc = "loop")

C3_ErrorStep ==
    (pc = "check" /\ (angle < 0 \/ angle > 180) /\ pc' # "check")
        => (pc' = "loop" /\ rx' = rx)

\* C3: both parts together: the error is the last effect of the invocation,
\* and the step that reports it returns to loop() leaving the buffer as is.
C3_BadTokenEndsInvocation == []C3_ErrorIsLast /\ [][C3_ErrorStep]_vars

C3_Witness ==
    /\ mode = "input"
    /\ pc = "loop"
    /\ HasError(log)
    /\ \E i \in 1..Len(rx) : IsDigit(rx[i])

\* C4 (as claimed): when loop() keeps calling userInputOperations, bytes
\* queued behind an out-of-range value are left alone until a new byte
\* arrives on the serial line.
C4_QueuedTokensWaitForNewInput ==
    [][(stalled /\ stalled' /\ \E i \in 1..Len(rx) : IsDigit(rx[i]))
         => rx' = rx]_vars

\* C4 (amended): the error return leaves the queued bytes in the buffer, and
\* the next iteration of loop() goes on parsing them without waiting for
\* new input: with no byte having arrived since the error, a non-empty
\* buffer sends the next invocation into parseInt, which consumes its head.
C4_QueuedTokensParsedByNextInvocation ==
    [][/\ (pc = "check" /\ pc' = "loop") => (rx' = rx /\ stalled')
       /\ (stalled /\ stalled' /\ pc = "loop") => (pc' = "avail" /\ rx' = rx)
       /\ (stalled /\ stalled' /\ pc = "avail" /\ Len(rx) > 0) => pc' = "skip"
       /\ (stalled /\ stalled' /\ pc = "skip" /\ Len(rx) > 0) => rx' = Tail(rx)
      ]_vars

C4_Witness ==
    /\ mode = "input"
    /\ stalled
    /\ pc = "avail"
    /\ angle \in 1..180
    /\ log = <<SettingMsg(angle), Write(angle)>>

----------------------------------------------------------------------------
\* The trace a valid sweep is expected to leave: the description, then for
\* each of the floor(|stop - start| / step) + 1 angles start + d*i*step the
\* line naming it, its write, and one wait of stepTime.
ExpectedCount == (Abs(stopAngle - startAngle) \div stepAngle) + 1
ExpectedAngle(i) ==
    IF startAngle < stopAngle
       THEN startAngle + (i - 1) * stepAngle
       ELSE startAngle - (i - 1) * stepAngle
ExpectedSweepLog ==
    [j \in 1..(1 + 3 * ExpectedCount) |->
        IF j = 1
           THEN SweepMsg(startAngle, stopAngle, stepAngle, stepTime)
           ELSE LET i == ((j - 2) \div 3) + 1
                    r == (j - 2) % 3
                IN  CASE r = 0 -> SettingMsg(ExpectedAngle(i))
                      [] r = 1 -> Write(ExpectedAngle(i))
                      [] r = 2 -> Delay(stepTime)]

\* C5: a servoSweep call that passes validation writes exactly start,
\* start + d*step, start + 2*d*step, ... for the floor(|stop - start| /
\* step) + 1 terms that do not pass stop, each write followed by one wait of
\* stepTime; the last write is stop only when step divides |stop - start|.
\* The four sweeps of sweepOperations are spelled out.
C5_ValidSweepWrites ==
    (pc = "ret" /\ SweepArgsValid) =>
        /\ log = ExpectedSweepLog
        /\ Len(WritesOf(log)) = (Abs(stopAngle - startAngle) \div stepAngle) + 1
        /\ \A i \in 1..Len(log) : IsWrite(log[i]) =>
               /\ i < Len(log)
               /\ log[i + 1] = Delay(stepTime)
               /\ IF startAngle < stopAngle
                     THEN log[i].v[1] \in startAngle..stopAngle
                     ELSE log[i].v[1] \in stopAngle..startAngle
        /\ (WrittenAngles(log)[Len(WritesOf(log))] = stopAngle)
               <=> (Abs(stopAngle - startAngle) % stepAngle = 0)
        /\ (startAngle = 0 /\ stopAngle = 180 /\ stepAngle = 1)
               => WrittenAngles(log) = [i \in 1..181 |-> i - 1]
        /\ (startAngle = 180 /\ stopAngle = 0 /\ stepAngle = 1)
               => WrittenAngles(log) = [i \in 1..181 |-> 181 - i]
        /\ (startAngle = 45 /\ stopAngle = 135 /\ stepAngle = 15)
               => WrittenAngles(log) = <<45, 60, 75, 90, 105, 120, 135>>
        /\ (startAngle = 180 /\ stopAngle = 0 /\ stepAngle = 45)
               => WrittenAngles(log) = <<180, 135, 90, 45, 0>>

C5_Witness ==
    /\ pc = "ret"
    /\ startAngle = 45
    /\ stopAngle = 135
    /\ stepAngle = 15
    /\ stepTime = 1000
    /\ Len(WritesOf(log)) = 7

\* C6: a servoSweep call with start <= 180 and stop <= 180 whose step is 0
\* or exceeds |stop - start| (every call with start = stop included) leaves
\* the stepAngle error as its whole trace: no description, no write, no
\* wait, and it has returned.
C6_BadStepOnlyReportsError ==
    (/\ InSweep
     /\ startAngle <= 180
     /\ stopAngle <= 180
     /\ (stepAngle = 0 \/ stepAngle > Abs(stopAngle - startAngle)))
        => (pc = "ret" /\ log = <<StepErrorMsg(stepAngle)>>)

C6_Witness ==
    /\ pc = "ret"
    /\ startAngle = 90
    /\ stopAngle = 90
    /\ stepAngle = 1
    /\ log = <<StepErrorMsg(1)>>

\* C7: a servoSweep call with startAngle > 180 or stopAngle > 180 leaves one
\* error message as its whole trace, the startAngle error when start is out
\* of range and the stopAngle error otherwise, whatever else is invalid, and
\* writes nothing.
C7_BadEndpointOnlyReportsError ==
    (InSweep /\ (startAngle > 180 \/ stopAngle > 180))
        => /\ pc = "ret"
           /\ log = <<IF startAngle > 180
                         THEN StartErrorMsg(startAngle)
                         ELSE StopErrorMsg(stopAngle)>>

C7_Witness ==
    /\ pc = "ret"
    /\ startAngle = 181
    /\ stopAngle = 255
    /\ stepAngle = 0
    /\ log = <<StartErrorMsg(181)>>

\* C8 (as claimed): an invocation of userInputOperations or servoSweep that
\* emits an out-of-range error has performed no servo write.
C8_ErrorMeansNoWriteInInvocation == HasError(log) => ~HasWrite(log)

\* C8 (amended): an out-of-range error is the last effect of its invocation
\* and is followed by the return; a servoSweep invocation that emits one has
\* performed no servo write at all, and a userInputOperations invocation has
\* performed none for the offending value or after it (the writes for valid
\* values parsed earlier in the same invocation stand).
C8_ErrorAbandonsOperation ==
    \A i \in 1..Len(log) : IsError(log[i]) =>
        /\ i = Len(log)
        /\ pc \in {"loop", "ret"}
        /\ log[i].v[1] \notin 0..180 \/ log[i].what = "ERROR: The stepAngle value of # is out of range."
        /\ mode \in {"sweepOps", "sweepAny"} => Len(log) = 1
        /\ \A j \in 1..Len(log) : IsWrite(log[j]) =>
               (j < i /\ log[j].v[1] # log[i].v[1] /\ log[j].v[1] \in 0..180)

C8_Witness ==
    /\ mode = "input"
    /\ pc = "loop"
    /\ Len(log) = 3
    /\ IsWrite(log[2])
    /\ IsError(log[3])

\* C9: every servoSweep call terminates: an invalid call returns after its
\* error message, and in a valid call the loop counter, a signed int, stays
\* within [-180, 360], moves by exactly the step on each pass without
\* wrapping, and so passes the inclusive bound.
C9_CounterInRange == pc \in {"up", "down", "ret"} => angle \in -180..360

C9_CounterMoves ==
    /\ (pc = "up" /\ pc' = "up") => (angle' = angle + stepAngle /\ angle' > angle)
    /\ (pc = "down" /\ pc' = "down") => (angle' = angle - stepAngle /\ angle' < angle)

\* C9: the counter stays in range, moves strictly towards the bound, and
\* every call that has been entered reaches its return.
C9_SweepTerminates ==
    /\ []C9_CounterInRange
    /\ [][C9_CounterMoves]_vars
    /\ (pc = "enter" ~> pc = "ret")

C9_Witness ==
    /\ pc = "ret"
    /\ startAngle = 180
    /\ stopAngle = 0
    /\ angle < 0
    /\ Len(WritesOf(log)) > 1

\* C10: in every mode, every angle handed to servoA.write is an integer in
\* the closed range [0, 180].
C10_WrittenAnglesInRange ==
    \A i \in 1..Len(log) : IsWrite(log[i]) => log[i].v[1] \in 0..180

C10_Witness ==
    /\ mode = "basic"
    /\ pc = "loop"
    /\ WrittenAngles(log) = <<90, 0, 90, 180>>

====
